---- MODULE Spec2Model ----
(***************************************************************************)
(* A model of the LLM redaction pipeline of redactor.py: the configuration *)
(* model (DataTypeConfig, RedactorConfig), the prompt compiler, the        *)
(* two-phase orchestrator Redactor.redact, the invocation adapter          *)
(* _call_llm, and the module-level factory and default instance; and of    *)
(* the host that calls a redaction step: redact_data of handlers.py and    *)
(* the signup and get_data routes of api_server.py.                        *)
(*                                                                         *)
(* A prompt is an f-string with holes; it is modelled as the record of     *)
(* what fills the holes.  A "\n".join(items) is modelled as the sequence   *)
(* of its lines (no line holds a newline, so nothing is lost).             *)
(***************************************************************************)
EXTENDS Integers, Sequences, FiniteSets, TLC

VARIABLES
    instances,          \* the Redactor objects constructed so far, by identity
    default_redactor,   \* the module global default_redactor (None or an identity)
    default_made,       \* history: identities constructed inside get_default_redactor
    pc,                 \* each caller's position
    frame,              \* each caller's local variables and what its call has sent
    made,               \* configuration objects built by the configuration model
    users,              \* the host's storage: the users/<email>.json objects
    handler             \* each host request handler's position and local variables

vars == <<instances, default_redactor, default_made, pc, frame, made, users, handler>>

Range(s) == {s[i] : i \in DOMAIN s}

\* ------------------------------------------------------------------------
\* Bounds of the model.
\* ------------------------------------------------------------------------
\* How many fields of a DataTypeConfig a caller sets away from a base
\* (the dataclass defaults, or all-off) when it passes data_types explicitly.
MaxToggles == 1
\* Concurrent callers of the module-level functions.
NThreads == 2
\* Redactor objects alive when a module-level call may still begin.
MaxInstances == 2
\* Configuration objects kept side by side by the configuration model.
MaxMade == 2

None == 0

\* ------------------------------------------------------------------------
\* Enumerations.
\* ------------------------------------------------------------------------
MASK == "mask"
SUBSTITUTE == "substitute"
BOTH == "both"
RedactionTechnique == {MASK, SUBSTITUTE, BOTH}

MINIMAL == "minimal"
STANDARD == "standard"
COMPREHENSIVE == "comprehensive"
PARANOID == "paranoid"
SophisticationLevel == {MINIMAL, STANDARD, COMPREHENSIVE, PARANOID}

\* The order in which the enumeration lists its members.
LevelRank(level) ==
    CASE level = MINIMAL -> 1
      [] level = STANDARD -> 2
      [] level = COMPREHENSIVE -> 3
      [] level = PARANOID -> 4

\* ------------------------------------------------------------------------
\* DataTypeConfig: a value is the set of its fields that are True.
\* ------------------------------------------------------------------------
DefaultOn ==
    {"names", "ssn", "phone_numbers", "email_addresses", "physical_addresses",
     "dates_of_birth", "financial_accounts", "medical_info", "biometric_data",
     "ip_addresses", "usernames", "passwords"}

Extended ==
    {"nicknames", "locations", "employers", "relationships",
     "educational_history", "physical_descriptions", "vehicle_info",
     "travel_history"}

Categories == DefaultOn \cup Extended

\* DataTypeConfig(): every field at its dataclass default.
DataTypeConfig == DefaultOn

\* Faulty variant: the PARANOID branch sets only its own four fields and
\* does not repeat the four of COMPREHENSIVE.
for_level_paranoid_resets(level) ==
    CASE level = MINIMAL ->
            DataTypeConfig \ {"physical_addresses", "dates_of_birth",
                              "financial_accounts", "medical_info",
                              "biometric_data", "ip_addresses", "usernames"}
      [] level = STANDARD -> DataTypeConfig
      [] level = COMPREHENSIVE ->
            DataTypeConfig \cup {"nicknames", "locations", "employers", "relationships"}
      [] level = PARANOID ->
            DataTypeConfig \cup {"educational_history", "physical_descriptions",
                                 "vehicle_info", "travel_history"}

\* Faulty variant: the MINIMAL branch leaves ip_addresses and usernames on.
for_level_minimal_keeps_network(level) ==
    CASE level = MINIMAL ->
            DataTypeConfig \ {"physical_addresses", "dates_of_birth",
                              "financial_accounts", "medical_info",
                              "biometric_data"}
      [] level = STANDARD -> DataTypeConfig
      [] level = COMPREHENSIVE ->
            DataTypeConfig \cup {"nicknames", "locations", "employers", "relationships"}
      [] level = PARANOID ->
            DataTypeConfig \cup {"nicknames", "locations", "employers", "relationships",
                                 "educational_history", "physical_descriptions",
                                 "vehicle_info", "travel_history"}

\* Faulty variant: the COMPREHENSIVE branch also sets educational_history.
for_level_comprehensive_adds_five(level) ==
    CASE level = MINIMAL ->
            DataTypeConfig \ {"physical_addresses", "dates_of_birth",
                              "financial_accounts", "medical_info",
                              "biometric_data", "ip_addresses", "usernames"}
      [] level = STANDARD -> DataTypeConfig
      [] level = COMPREHENSIVE ->
            DataTypeConfig \cup {"nicknames", "locations", "employers", "relationships",
                                 "educational_history"}
      [] level = PARANOID ->
            DataTypeConfig \cup {"nicknames", "locations", "employers", "relationships",
                                 "educational_history", "physical_descriptions",
                                 "vehicle_info", "travel_history"}

for_level(level) ==
    CASE level = MINIMAL ->
            DataTypeConfig \ {"physical_addresses", "dates_of_birth",
                              "financial_accounts", "medical_info",
                              "biometric_data", "ip_addresses", "usernames"}
      [] level = STANDARD -> DataTypeConfig
      [] level = COMPREHENSIVE ->
            DataTypeConfig \cup {"nicknames", "locations", "employers", "relationships"}
      [] level = PARANOID ->
            DataTypeConfig \cup {"nicknames", "locations", "employers", "relationships",
                                 "educational_history", "physical_descriptions",
                                 "vehicle_info", "travel_history"}

\* ------------------------------------------------------------------------
\* RedactorConfig.  data_types = NoDataTypes stands for the argument left
\* out (None); __post_init__ then derives it from the sophistication.
\* ------------------------------------------------------------------------
NoDataTypes == {"<None>"}

\* Faulty variant: data_types is derived from the sophistication whether
\* or not one was given.
post_init_always_derives(sophistication, data_types) == for_level(sophistication)

post_init(sophistication, data_types) ==
    IF data_types = NoDataTypes THEN for_level(sophistication) ELSE data_types

\* The remaining fields (the three maintain_* flags, model, temperature) keep
\* their defaults in every configuration of this model.
RedactorConfig(technique, sophistication, data_types, individuals, patterns, mask_char, mask_length) ==
    [technique |-> technique,
     sophistication |-> sophistication,
     data_types |-> post_init(sophistication, data_types),
     target_individuals |-> individuals,
     custom_patterns |-> patterns,
     mask_char |-> mask_char,
     mask_length |-> mask_length]

\* Redactor.__init__ with a configuration given.
Redactor(cfg) == [config |-> cfg, substitution_map |-> <<>>]

\* ------------------------------------------------------------------------
\* Prompt compiler.  Each description walks its categories in the order of
\* its if-statements and appends the line of every category that is on.
\* ------------------------------------------------------------------------
PartialMaskOrder ==
    <<"ssn", "passwords", "financial_accounts", "medical_info", "biometric_data">>

PartialMaskLine ==
    [ssn |-> "- Social Security Numbers (SSN)",
     passwords |-> "- Passwords and security credentials",
     financial_accounts |-> "- Bank account numbers, credit card numbers",
     medical_info |-> "- Medical record numbers, diagnosis codes",
     biometric_data |-> "- Biometric identifiers"]

SubstitutionOrder ==
    <<"names", "nicknames", "phone_numbers", "email_addresses",
      "physical_addresses", "dates_of_birth", "ip_addresses", "usernames",
      "locations", "employers", "relationships", "educational_history",
      "physical_descriptions", "vehicle_info", "travel_history">>

SubstitutionLine ==
    [names |-> "- Personal names (first, last, full names)",
     nicknames |-> "- Nicknames and aliases",
     phone_numbers |-> "- Phone numbers (replace with different realistic numbers)",
     email_addresses |-> "- Email addresses (replace with different realistic addresses)",
     physical_addresses |-> "- Physical/mailing addresses",
     dates_of_birth |-> "- Dates of birth (shift by random amount)",
     ip_addresses |-> "- IP addresses",
     usernames |-> "- Usernames and handles",
     locations |-> "- Location references (cities, neighborhoods, landmarks)",
     employers |-> "- Employer names and work locations",
     relationships |-> "- Relationship identifiers (spouse name, children's names)",
     educational_history |-> "- Schools, universities, degrees",
     physical_descriptions |-> "- Physical descriptions that could identify",
     vehicle_info |-> "- Vehicle information (make, model, license plates)",
     travel_history |-> "- Travel history and frequent locations"]

AllOrder ==
    <<"names", "ssn", "phone_numbers", "email_addresses", "physical_addresses",
      "dates_of_birth", "financial_accounts", "medical_info", "biometric_data",
      "ip_addresses", "usernames", "passwords", "nicknames", "locations",
      "employers", "relationships", "educational_history",
      "physical_descriptions", "vehicle_info", "travel_history">>

AllLine ==
    [names |-> "- Personal names",
     ssn |-> "- Social Security Numbers",
     phone_numbers |-> "- Phone numbers",
     email_addresses |-> "- Email addresses",
     physical_addresses |-> "- Physical addresses",
     dates_of_birth |-> "- Dates of birth",
     financial_accounts |-> "- Financial account numbers",
     medical_info |-> "- Medical information",
     biometric_data |-> "- Biometric data",
     ip_addresses |-> "- IP addresses",
     usernames |-> "- Usernames",
     passwords |-> "- Passwords",
     nicknames |-> "- Nicknames and aliases",
     locations |-> "- Location references",
     employers |-> "- Employer information",
     relationships |-> "- Relationship identifiers",
     educational_history |-> "- Educational history",
     physical_descriptions |-> "- Physical descriptions",
     vehicle_info |-> "- Vehicle information",
     travel_history |-> "- Travel history"]

\* items = []; for each category of `order` in turn: if cfg.<category>: append its line.
\* Faulty variant: the lines come out last category first.
Items_reversed(cfg, order, line) ==
    LET on == SelectSeq(order, LAMBDA c : c \in cfg)
    IN  [i \in 1..Len(on) |-> line[on[Len(on) + 1 - i]]]

Items(cfg, order, line) ==
    LET on == SelectSeq(order, LAMBDA c : c \in cfg)
    IN  [i \in 1..Len(on) |-> line[on[i]]]

\* Faulty variant: "\n".join(items), which is empty for no items.
JoinOr_no_fallback(items, fallback) == items

\* "\n".join(items) if items else fallback
JoinOr(items, fallback) == IF items # <<>> THEN items ELSE <<fallback>>

get_all_data_types_description(cfg, mode) ==
    JoinOr(Items(cfg, AllOrder, AllLine), "- Standard PII")

\* Faulty variant: the restricted list is used whether or not partial is set.
mask_description_always_partial(config, partial) ==
    JoinOr(Items(config.data_types, PartialMaskOrder, PartialMaskLine),
           "- No specific types for masking")

\* Faulty variant: the restricted list is emitted without consulting the
\* configured toggles.
mask_description_partial_ignores_config(config, partial) ==
    IF partial
    THEN JoinOr(Items(Categories, PartialMaskOrder, PartialMaskLine),
                "- No specific types for masking")
    ELSE get_all_data_types_description(config.data_types, "mask")

get_mask_data_types_description(config, partial) ==
    IF partial
    THEN JoinOr(Items(config.data_types, PartialMaskOrder, PartialMaskLine),
                "- No specific types for masking")
    ELSE get_all_data_types_description(config.data_types, "mask")

get_substitution_data_types_description(config) ==
    JoinOr(Items(config.data_types, SubstitutionOrder, SubstitutionLine),
           "- General PII as appropriate")

\* sep.join(items)
RECURSIVE Join(_, _)
Join(items, sep) ==
    IF items = <<>>
    THEN ""
    ELSE IF Len(items) = 1
         THEN items[1]
         ELSE items[1] \o sep \o Join(Tail(items), sep)

\* f'"{name}"'
Quoted(name) == "\"" \o name \o "\""

\* "" without target individuals; else the block whose body is the quoted
\* names joined by ", ".
get_individuals_description(config) ==
    [emitted |-> config.target_individuals # <<>>,
     names |-> Join([i \in DOMAIN config.target_individuals |->
                        Quoted(config.target_individuals[i])], ", ")]

\* "" without custom patterns; else the block with one "- Pattern: " line
\* for each.
get_patterns_description(config) ==
    [emitted |-> config.custom_patterns # <<>>,
     patterns |-> [i \in DOMAIN config.custom_patterns |->
                      "- Pattern: " \o config.custom_patterns[i]]]

\* str * int
RECURSIVE Repeat(_, _)
Repeat(char, n) == IF n <= 0 THEN "" ELSE char \o Repeat(char, n - 1)

build_mask_prompt(config, document, mask, partial) ==
    [template |-> "mask",
     mask |-> mask,
     document |-> document,
     data_types |-> get_mask_data_types_description(config, partial),
     individuals |-> get_individuals_description(config),
     patterns |-> get_patterns_description(config),
     already_masked |-> ""]

\* Faulty variant: the substitution template has no individuals block.
build_substitution_prompt_no_individuals(config, document) ==
    [template |-> "substitution",
     mask |-> "",
     document |-> document,
     data_types |-> get_substitution_data_types_description(config),
     individuals |-> [emitted |-> FALSE, names |-> ""],
     patterns |-> [emitted |-> FALSE, patterns |-> <<>>],
     already_masked |-> "***"]

\* The substitution template has no custom-pattern block, and names the
\* already-masked marker by the literal "***".
build_substitution_prompt(config, document) ==
    [template |-> "substitution",
     mask |-> "",
     document |-> document,
     data_types |-> get_substitution_data_types_description(config),
     individuals |-> get_individuals_description(config),
     patterns |-> [emitted |-> FALSE, patterns |-> <<>>],
     already_masked |-> "***"]

MaskLevelDesc ==
    [minimal |-> "basic PII only",
     standard |-> "standard PII and sensitive data",
     comprehensive |-> "comprehensive sensitive data including indirect identifiers",
     paranoid |-> "maximum privacy - anything that could lead to re-identification"]

SubstitutionLevelDesc ==
    [minimal |-> "basic PII",
     standard |-> "standard PII and sensitive data",
     comprehensive |-> "comprehensive data including nicknames, locations, and indirect identifiers",
     paranoid |-> "maximum privacy - replacing anything that could enable re-identification"]

build_mask_system_message(config, partial) ==
    [template |-> "mask",
     phase |-> IF partial THEN "first phase (masking critical data)" ELSE "complete masking",
     level |-> config.sophistication,
     scope |-> MaskLevelDesc[config.sophistication],
     already_masked |-> ""]

build_substitution_system_message(config) ==
    [template |-> "substitution",
     phase |-> "",
     level |-> "",
     scope |-> SubstitutionLevelDesc[config.sophistication],
     already_masked |-> "***"]

\* ------------------------------------------------------------------------
\* The completion endpoint.  A reply is what requests.post returns: the
\* status code, the raw body (response.text) and, when the body is the JSON
\* the adapter expects, the text at ['choices'][0]['message']['content'].
\* ------------------------------------------------------------------------
Documents == {"SSN: 123-45-6789, Name: John", "Hello, John!"}

Contents == {"SSN: ***, Name: John", "SSN: ***, Name: Robert"}

OkReply(content) ==
    [status |-> 200, text |-> "{choices: [{message: {content: ...}}]}",
     has_content |-> TRUE, content |-> content]

ErrorReply == 
    [status |-> 500, text |-> "Internal Server Error",
     has_content |-> FALSE, content |-> ""]

\* Status 200 with a body that is not the expected JSON.
MalformedReply ==
    [status |-> 200, text |-> "<html>", has_content |-> FALSE, content |-> ""]

Replies == {OkReply(c) : c \in Contents} \cup {ErrorReply, MalformedReply}

\* How a call ends: a returned value or a raised exception.
NoError == [type |-> "", status |-> 0, text |-> ""]
\* A returned str is `value`; a returned dict is `parsed`, the set of its
\* <<key, value>> items.
NoResult == [kind |-> "none", value |-> "", parsed |-> {}, error |-> NoError]
Return(value) == [kind |-> "return", value |-> value, parsed |-> {}, error |-> NoError]
ReturnDict(items) == [kind |-> "return", value |-> "", parsed |-> items, error |-> NoError]
Raise(type, status, text) ==
    [kind |-> "raise", value |-> "", parsed |-> {},
     error |-> [type |-> type, status |-> status, text |-> text]]

\* raise Exception(f"LLM API error: {response.status_code} - {response.text}")
LLMApiError(reply) == Raise("Exception: LLM API error", reply.status, reply.text)

\* Faulty variant: the status code is not looked at; a body without the
\* expected content yields the empty string.
call_llm_ignores_status(reply) ==
    IF reply.has_content THEN Return(reply.content) ELSE Return("")

\* What _call_llm does with the reply to the one request it posts.
call_llm(reply) ==
    IF reply.status # 200
    THEN LLMApiError(reply)
    ELSE IF reply.has_content
         THEN Return(reply.content)
         ELSE Raise("KeyError", 0, "")

\* The request _call_llm posts: messages[0] is the system message,
\* messages[1] the prompt.
Request(prompt, system_message) == [system |-> system_message, prompt |-> prompt]

redact_with_mask_request(config, document, partial) ==
    LET mask == Repeat(config.mask_char, config.mask_length)
    IN  Request(build_mask_prompt(config, document, mask, partial),
                build_mask_system_message(config, partial))

redact_with_substitution_request(config, document) ==
    Request(build_substitution_prompt(config, document),
            build_substitution_system_message(config))

\* ------------------------------------------------------------------------
\* Redactor.redact, as the caller's position moves through it.
\* ------------------------------------------------------------------------
Absent == "<absent>"
NoKwargs == [technique |-> Absent, sophistication |-> Absent]

NewFrame ==
    [op |-> "", kwargs |-> NoKwargs, redactor |-> None, data |-> {}, document |-> "",
     partial |-> FALSE, masked |-> "", redacted |-> "",
     requests |-> <<>>, replies |-> <<>>, result |-> NoResult]

Callers == DOMAIN pc
ConfigOf(t) == instances[frame[t].redactor].config

\* Faulty variant: the MASK and SUBSTITUTE branches are exchanged.
first_round_swapped(technique) ==
    IF technique = MASK
    THEN "substitution_round"
    ELSE IF technique = SUBSTITUTE THEN "mask_round" ELSE "mask_round"

\* The branch redact takes: which round runs first.
first_round(technique) ==
    IF technique = MASK
    THEN "mask_round"
    ELSE IF technique = SUBSTITUTE THEN "substitution_round" ELSE "mask_round"

\* partial=True is passed only on the BOTH branch.
is_partial(technique) == technique # MASK /\ technique # SUBSTITUTE

\* Faulty variant: a failed mask round does not leave redact.
after_mask_round_swallows(partial, outcome) ==
    IF partial THEN "substitution_round" ELSE "done"

\* Where redact goes once _redact_with_mask has ended: an exception leaves
\* redact; on the BOTH branch the substitution follows; otherwise redact
\* returns.
after_mask_round(partial, outcome) ==
    IF outcome.kind = "raise"
    THEN "done"
    ELSE IF partial THEN "substitution_round" ELSE "done"

\* Faulty variant: the second round is given the original document.
substitution_input_original(f) == f.document

\* The document the substitution round is given: masked on the BOTH branch.
substitution_input(f) == IF f.partial THEN f.masked ELSE f.document

\* Where control goes when Redactor.redact ends: back into redact_json,
\* which parses what redact returned, or out of the call.
JsonOps == {"redact_json", "Redactor.redact_json"}

return_to(f, outcome) ==
    IF f.op \in JsonOps /\ outcome.kind = "return" THEN "parse_json" ELSE "done"

\* The frame once Redactor.redact has ended with `outcome`.
EndRedact(f, outcome) ==
    IF return_to(f, outcome) = "parse_json"
    THEN [f EXCEPT !.redacted = outcome.value]
    ELSE [f EXCEPT !.result = outcome]

\* redact's dispatch on self.config.technique.
Redact(t) ==
    /\ pc[t] = "redact"
    /\ pc' = [pc EXCEPT ![t] = first_round(ConfigOf(t).technique)]
    /\ frame' = [frame EXCEPT ![t].partial = is_partial(ConfigOf(t).technique)]
    /\ UNCHANGED <<instances, default_redactor, default_made, made, users, handler>>

\* _redact_with_mask: build the prompt and the system message, post them,
\* take the reply.
MaskRound(t, reply) ==
    /\ pc[t] = "mask_round"
    /\ LET f == frame[t]
           outcome == call_llm(reply)
           next == after_mask_round(f.partial, outcome)
           sent == [f EXCEPT
                     !.requests = Append(@, redact_with_mask_request(ConfigOf(t), f.document, f.partial)),
                     !.replies = Append(@, reply),
                     !.masked = outcome.value]
       IN  IF next = "done"
           THEN /\ pc' = [pc EXCEPT ![t] = return_to(f, outcome)]
                /\ frame' = [frame EXCEPT ![t] = EndRedact(sent, outcome)]
           ELSE /\ pc' = [pc EXCEPT ![t] = next]
                /\ frame' = [frame EXCEPT ![t] = sent]
    /\ UNCHANGED <<instances, default_redactor, default_made, made, users, handler>>

\* Faulty variant: each substitution that returns is recorded in
\* self.substitution_map.
self_after_substitution_tracks(self, document, outcome) ==
    IF outcome.kind = "return"
    THEN [self EXCEPT !.substitution_map = Append(@, <<document, outcome.value>>)]
    ELSE self

\* What _redact_with_substitution leaves of self: it assigns to no
\* attribute, substitution_map included.
self_after_substitution(self, document, outcome) == self

\* _redact_with_substitution, whose result redact returns.
SubstitutionRound(t, reply) ==
    /\ pc[t] = "substitution_round"
    /\ LET f == frame[t]
           outcome == call_llm(reply)
           sent == [f EXCEPT
                     !.requests = Append(@, redact_with_substitution_request(ConfigOf(t), substitution_input(f))),
                     !.replies = Append(@, reply)]
       IN  /\ pc' = [pc EXCEPT ![t] = return_to(f, outcome)]
           /\ frame' = [frame EXCEPT ![t] = EndRedact(sent, outcome)]
           /\ instances' = [instances EXCEPT ![f.redactor] =
                  self_after_substitution(@, substitution_input(f), outcome)]
    /\ UNCHANGED <<default_redactor, default_made, made, users, handler>>

\* ------------------------------------------------------------------------
\* Redactor.redact_json: json.dumps, redact, then the parse with its
\* bracket-extraction fallback.  json.loads is the table of the JSON
\* documents among the texts of the model; str.find, str.rfind and slicing
\* are computed on the text.
\* ------------------------------------------------------------------------
JsonTable ==
    {<<"{\"name\": \"***\"}", {<<"name", "***">>}>>,
     <<"{\n  \"name\": \"John\"\n}", {<<"name", "John">>}>>}

IsJson(text) == \E p \in JsonTable : p[1] = text
json_loads(text) == (CHOOSE p \in JsonTable : p[1] = text)[2]
\* json.dumps(data, indent=2)
json_dumps(data) ==
    (CHOOSE p \in JsonTable : p[2] = data /\ SubSeq(p[1], 2, 2) = "\n")[1]

Positions(text, char) == {i \in 1..Len(text) : SubSeq(text, i, i) = char}
\* str.find / str.rfind: the 0-based index of the first / last occurrence, or -1.
find(text, char) ==
    IF Positions(text, char) = {}
    THEN -1
    ELSE (CHOOSE i \in Positions(text, char) : \A j \in Positions(text, char) : i <= j) - 1
rfind(text, char) ==
    IF Positions(text, char) = {}
    THEN -1
    ELSE (CHOOSE i \in Positions(text, char) : \A j \in Positions(text, char) : i >= j) - 1
\* text[start:end] for 0 <= start <= end
Slice(text, start, end) == SubSeq(text, start + 1, end)

\* Faulty variant: no bracket extraction; any text that is not JSON is an
\* error.
parse_redacted_no_extraction(redacted) ==
    IF IsJson(redacted)
    THEN ReturnDict(json_loads(redacted))
    ELSE Raise("ValueError", 0, "Failed to parse redacted output as JSON")

\* Faulty variant: when nothing parses, an empty dict is returned.
parse_redacted_default_on_failure(redacted) ==
    IF IsJson(redacted)
    THEN ReturnDict(json_loads(redacted))
    ELSE IF find(redacted, "{") # -1 /\ rfind(redacted, "}") + 1 > find(redacted, "{")
              /\ IsJson(Slice(redacted, find(redacted, "{"), rfind(redacted, "}") + 1))
         THEN ReturnDict(json_loads(Slice(redacted, find(redacted, "{"), rfind(redacted, "}") + 1)))
         ELSE ReturnDict({})

\* Faulty variant: JSON text is handed back as the str it is.
parse_redacted_unparsed(redacted) ==
    IF IsJson(redacted)
    THEN Return(redacted)
    ELSE Raise("ValueError", 0, "Failed to parse redacted output as JSON")

\* What redact_json makes of the text redact returned.
parse_redacted(redacted) ==
    IF IsJson(redacted)
    THEN ReturnDict(json_loads(redacted))
    ELSE LET start == find(redacted, "{")
             end == rfind(redacted, "}") + 1
         IN  IF start # -1 /\ end > start
             THEN IF IsJson(Slice(redacted, start, end))
                  THEN ReturnDict(json_loads(Slice(redacted, start, end)))
                  ELSE Raise("JSONDecodeError", 0, Slice(redacted, start, end))
             ELSE Raise("ValueError", 0, "Failed to parse redacted output as JSON")

\* redact_json: document = json.dumps(data, indent=2), then self.redact(document).
RedactJson(t) ==
    /\ pc[t] = "redact_json"
    /\ frame' = [frame EXCEPT ![t].document = json_dumps(frame[t].data)]
    /\ pc' = [pc EXCEPT ![t] = "redact"]
    /\ UNCHANGED <<instances, default_redactor, default_made, made, users, handler>>

\* redact_json: json.loads(redacted), or the extraction, or the error.
ParseJson(t) ==
    /\ pc[t] = "parse_json"
    /\ frame' = [frame EXCEPT ![t].result = parse_redacted(frame[t].redacted)]
    /\ pc' = [pc EXCEPT ![t] = "done"]
    /\ UNCHANGED <<instances, default_redactor, default_made, made, users, handler>>

\* ------------------------------------------------------------------------
\* Spec: one Redactor, built from any configuration of InitConfigs, whose
\* owner calls redact on it again and again.
\* ------------------------------------------------------------------------
RECURSIVE SubsetsUpTo(_)
SubsetsUpTo(n) ==
    IF n <= 0
    THEN {{}}
    ELSE LET smaller == SubsetsUpTo(n - 1)
         IN  smaller \cup {s \cup {c} : s \in smaller, c \in Categories}

\* DataTypeConfig(...) with up to MaxToggles fields set away from the
\* defaults, or with all fields off but up to MaxToggles.
ExplicitDataTypes ==
    {(base \ s) \cup (s \ base) : base \in {DataTypeConfig, {}}, s \in SubsetsUpTo(MaxToggles)}

IndividualLists == {<<>>, <<"Jane Doe">>, <<"Mickey Mouse", "Donald Duck">>}
PatternLists == {<<>>, <<"[A-Z]{2}-[0-9]{6}">>}
Masks == {<<"*", 3>>, <<"#", 5>>}

DataTypeSweep ==
    {RedactorConfig(technique, level, dt, <<>>, <<>>, "*", 3) :
        technique \in RedactionTechnique, level \in SophisticationLevel,
        dt \in {NoDataTypes} \cup ExplicitDataTypes}

FieldSweep ==
    {RedactorConfig(technique, level, NoDataTypes, ind, pat, m[1], m[2]) :
        technique \in RedactionTechnique, level \in SophisticationLevel,
        ind \in IndividualLists, pat \in PatternLists, m \in Masks}

InitConfigs == DataTypeSweep \cup FieldSweep

Owner == "owner"

Init ==
    /\ \E cfg \in InitConfigs : instances = <<Redactor(cfg)>>
    /\ default_redactor = None
    /\ default_made = {}
    /\ pc = [t \in {Owner} |-> "idle"]
    /\ frame = [t \in {Owner} |-> NewFrame]
    /\ made = {}
    /\ users = <<>>
    /\ handler = <<>>

\* The owner calls r.redact(document).
Invoke(t, document) ==
    /\ pc[t] \in {"idle", "done"}
    /\ pc' = [pc EXCEPT ![t] = "redact"]
    /\ frame' = [frame EXCEPT ![t] =
           [NewFrame EXCEPT !.op = "Redactor.redact", !.redactor = 1, !.document = document]]
    /\ UNCHANGED <<instances, default_redactor, default_made, made, users, handler>>

Next ==
    \/ \E t \in DOMAIN pc, document \in Documents : Invoke(t, document)
    \/ \E t \in DOMAIN pc : Redact(t)
    \/ \E t \in DOMAIN pc, reply \in Replies : MaskRound(t, reply)
    \/ \E t \in DOMAIN pc, reply \in Replies : SubstitutionRound(t, reply)

Spec == Init /\ [][Next]_vars

\* ------------------------------------------------------------------------
\* What a prompt names, read back from its category lines.
\* ------------------------------------------------------------------------
RestrictedSubset ==
    {"ssn", "passwords", "financial_accounts", "medical_info", "biometric_data"}

\* The categories a list of lines names: a category is named when the list
\* holds a line that any of the three descriptions writes for it.
Named(lines) ==
    {c \in Categories :
        \/ AllLine[c] \in Range(lines)
        \/ c \in DOMAIN PartialMaskLine /\ PartialMaskLine[c] \in Range(lines)
        \/ c \in DOMAIN SubstitutionLine /\ SubstitutionLine[c] \in Range(lines)}

TechniqueOf(t) == ConfigOf(t).technique
Completed(t) ==
    pc[t] = "done" /\ frame[t].redactor # None /\ frame[t].op \in {"Redactor.redact", "redact"}
Returned(t) == Completed(t) /\ frame[t].result.kind = "return"
IsMaskRequest(r) == r.prompt.template = "mask" /\ r.system.template = "mask"
IsSubstitutionRequest(r) ==
    r.prompt.template = "substitution" /\ r.system.template = "substitution"

\* C1: for technique BOTH, a redact call that returns has sent exactly two
\* requests, the mask request first and the substitution request second;
\* the document in the substitution prompt is the text the mask round
\* returned, and the value returned is the text the substitution round
\* returned.  A substitution request is never the first of a BOTH call.
C1_BothTwoRoundsInOrder ==
    \A t \in Callers :
        (frame[t].redactor # None /\ TechniqueOf(t) = BOTH) =>
            LET f == frame[t]
            IN  /\ \A i \in DOMAIN f.requests :
                      IsSubstitutionRequest(f.requests[i]) =>
                          i = 2 /\ IsMaskRequest(f.requests[1])
                /\ Returned(t) =>
                      /\ Len(f.requests) = 2
                      /\ IsMaskRequest(f.requests[1])
                      /\ IsSubstitutionRequest(f.requests[2])
                      /\ f.requests[2].prompt.document = f.replies[1].content
                      /\ f.result.value = f.replies[2].content

C1_Witness ==
    \E t \in Callers :
        /\ Returned(t)
        /\ TechniqueOf(t) = BOTH
        /\ Len(frame[t].requests) = 2
        /\ frame[t].replies[1].content # frame[t].document
        /\ frame[t].replies[1].content # frame[t].replies[2].content

\* C2: for technique BOTH and every configuration, the categories named in
\* the first-round (mask) prompt are among ssn, passwords,
\* financial_accounts, medical_info, biometric_data, and are enabled in
\* data_types.
C2_BothMaskNamesRestrictedSubset ==
    \A t \in Callers :
        (frame[t].redactor # None /\ TechniqueOf(t) = BOTH) =>
            \A i \in DOMAIN frame[t].requests :
                IsMaskRequest(frame[t].requests[i]) =>
                    Named(frame[t].requests[i].prompt.data_types)
                        \subseteq (RestrictedSubset \cap ConfigOf(t).data_types)

C2_Witness ==
    \E t \in Callers :
        /\ frame[t].redactor # None
        /\ TechniqueOf(t) = BOTH
        /\ Len(frame[t].requests) >= 1
        /\ IsMaskRequest(frame[t].requests[1])
        /\ Named(frame[t].requests[1].prompt.data_types) = {"ssn", "passwords"}
        /\ "names" \in ConfigOf(t).data_types

\* C3: for every configuration, the category list of the substitution
\* prompt names every category enabled in data_types, whether the
\* substitution round runs alone or as the second round of BOTH.
C3_SubstitutionNamesFullSet ==
    \A t \in Callers :
        frame[t].redactor # None =>
            \A i \in DOMAIN frame[t].requests :
                IsSubstitutionRequest(frame[t].requests[i]) =>
                    ConfigOf(t).data_types
                        \subseteq Named(frame[t].requests[i].prompt.data_types)

\* C5: when the endpoint answers a round with a status other than 200, the
\* call has ended by raising the LLM API error that carries that status and
\* that raw body; it has returned no value.
C5_ErrorStatusRaises ==
    \A t \in Callers :
        \A i \in DOMAIN frame[t].replies :
            frame[t].replies[i].status # 200 =>
                /\ pc[t] = "done"
                /\ frame[t].result.kind = "raise"
                /\ frame[t].result.error.type = "Exception: LLM API error"
                /\ frame[t].result.error.status = frame[t].replies[i].status
                /\ frame[t].result.error.text = frame[t].replies[i].text

C5_Witness ==
    \E t \in Callers :
        /\ Completed(t)
        /\ TechniqueOf(t) = BOTH
        /\ Len(frame[t].replies) = 2
        /\ frame[t].replies[1].status = 200
        /\ frame[t].replies[2].status = 500
        /\ frame[t].result.kind = "raise"

\* C6: a call sends one request per reply it takes and at most two in all;
\* after a reply with a status other than 200 it sends nothing more, so the
\* failing request is its last, and a BOTH call whose mask round failed has
\* sent no substitution request; the call ends with that round's error.
C6_NoRetryNoRoundAfterFailure ==
    \A t \in Callers :
        LET f == frame[t]
        IN  /\ Len(f.requests) = Len(f.replies)
            /\ Len(f.requests) <= 2
            /\ \A i \in DOMAIN f.replies :
                  f.replies[i].status # 200 =>
                      /\ i = Len(f.requests)
                      /\ \A j \in DOMAIN f.requests :
                            j # i => ~(f.requests[j].prompt.template = f.requests[i].prompt.template)
                      /\ (IsMaskRequest(f.requests[i]) =>
                            \A j \in DOMAIN f.requests : ~IsSubstitutionRequest(f.requests[j]))
                      /\ f.result = LLMApiError(f.replies[i])

C6_Witness ==
    \E t \in Callers :
        /\ Completed(t)
        /\ TechniqueOf(t) = BOTH
        /\ Len(frame[t].requests) = 1
        /\ IsMaskRequest(frame[t].requests[1])
        /\ frame[t].replies[1].status = 500
        /\ frame[t].result.kind = "raise"

\* C7: for technique MASK a completed redact call has sent exactly one
\* request and it is a mask request; for technique SUBSTITUTE exactly one
\* and it is a substitution request; when the call returns, its value is
\* the text that round returned.
C7_SingleRoundTechniques ==
    \A t \in Callers :
        (Completed(t) /\ TechniqueOf(t) \in {MASK, SUBSTITUTE}) =>
            LET f == frame[t]
            IN  /\ Len(f.requests) = 1
                /\ TechniqueOf(t) = MASK => IsMaskRequest(f.requests[1])
                /\ TechniqueOf(t) = SUBSTITUTE => IsSubstitutionRequest(f.requests[1])
                /\ f.requests[1].prompt.document = f.document
                /\ f.result.kind = "return" => f.result.value = f.replies[1].content

C7_Witness ==
    \E t \in Callers :
        /\ Returned(t)
        /\ TechniqueOf(t) = SUBSTITUTE
        /\ Len(frame[t].requests) = 1
        /\ frame[t].result.value = "SSN: ***, Name: Robert"

\* C8: for technique MASK the category list of the mask prompt names
\* exactly the categories enabled in data_types.
C8_MaskAloneNamesConfiguredSet ==
    \A t \in Callers :
        (frame[t].redactor # None /\ TechniqueOf(t) = MASK) =>
            \A i \in DOMAIN frame[t].requests :
                IsMaskRequest(frame[t].requests[i]) =>
                    Named(frame[t].requests[i].prompt.data_types) = ConfigOf(t).data_types

C8_Witness ==
    \E t \in Callers :
        /\ frame[t].redactor # None
        /\ TechniqueOf(t) = MASK
        /\ Len(frame[t].requests) = 1
        /\ IsMaskRequest(frame[t].requests[1])
        /\ ConfigOf(t).data_types = DataTypeConfig \cup {"travel_history"}
        /\ {"names", "travel_history"} \subseteq Named(frame[t].requests[1].prompt.data_types)

\* ------------------------------------------------------------------------
\* SpecConfig: the configuration model on its own.  Callers build
\* DataTypeConfig and RedactorConfig objects; `made` keeps up to MaxMade of
\* them side by side, each with the arguments it was built from.
\* ------------------------------------------------------------------------
GivenDataTypes == {NoDataTypes, {}, Categories, DataTypeConfig \ {"ssn"}, {"ssn"}}

InitConfig ==
    /\ made = {}
    /\ users = <<>>
    /\ handler = <<>>
    /\ instances = <<>>
    /\ default_redactor = None
    /\ default_made = {}
    /\ pc = <<>>
    /\ frame = <<>>

\* DataTypeConfig.for_level(level)
ForLevel(level) ==
    /\ Cardinality(made) < MaxMade
    /\ made' = made \cup
           {[op |-> "for_level", level |-> level, given |-> NoDataTypes,
             data_types |-> for_level(level)]}
    /\ UNCHANGED <<instances, default_redactor, default_made, pc, frame, users, handler>>

\* RedactorConfig(sophistication=level, data_types=given)
NewRedactorConfig(level, given) ==
    /\ Cardinality(made) < MaxMade
    /\ made' = made \cup
           {[op |-> "RedactorConfig", level |-> level, given |-> given,
             data_types |-> RedactorConfig(BOTH, level, given, <<>>, <<>>, "*", 3).data_types]}
    /\ UNCHANGED <<instances, default_redactor, default_made, pc, frame, users, handler>>

NextConfig ==
    \/ \E level \in SophisticationLevel : ForLevel(level)
    \/ \E level \in SophisticationLevel, given \in GivenDataTypes :
          NewRedactorConfig(level, given)

SpecConfig == InitConfig /\ [][NextConfig]_vars

\* C4: for sophistication levels L1 < L2 in the order MINIMAL < STANDARD <
\* COMPREHENSIVE < PARANOID, the categories for_level(L1) enables are among
\* those for_level(L2) enables.
C4_ForLevelMonotone ==
    \A a, b \in made :
        (a.op = "for_level" /\ b.op = "for_level"
            /\ LevelRank(a.level) < LevelRank(b.level)) =>
                a.data_types \subseteq b.data_types

C4_Witness ==
    \E a, b \in made :
        /\ a.op = "for_level" /\ a.level = COMPREHENSIVE
        /\ b.op = "for_level" /\ b.level = PARANOID
        /\ a.data_types # b.data_types
        /\ "nicknames" \in a.data_types

\* ------------------------------------------------------------------------
\* The factory and the module-level functions.
\* ------------------------------------------------------------------------
\* Enum(value): the member with that value, or ValueError.
EnumError(value, enum) == Raise("ValueError", 0, value)

DefaultTechnique == "both"
DefaultSophistication == "standard"

ArgOr(arg, default) == IF arg = Absent THEN default ELSE arg

\* Faulty variant: an unknown string falls back to the default member.
create_redactor_lenient(kwargs) ==
    LET technique == ArgOr(kwargs.technique, DefaultTechnique)
        sophistication == ArgOr(kwargs.sophistication, DefaultSophistication)
        tech == IF technique \in RedactionTechnique THEN technique ELSE BOTH
        soph == IF sophistication \in SophisticationLevel THEN sophistication ELSE STANDARD
    IN  [ok |-> TRUE, error |-> NoResult,
         redactor |-> Redactor(RedactorConfig(tech, soph, NoDataTypes, <<>>, <<>>, "*", 3))]

\* create_redactor(**kwargs): the two enumeration lookups, technique first,
\* then the RedactorConfig and the Redactor.
create_redactor(kwargs) ==
    LET technique == ArgOr(kwargs.technique, DefaultTechnique)
        sophistication == ArgOr(kwargs.sophistication, DefaultSophistication)
    IN  IF technique \notin RedactionTechnique
        THEN [ok |-> FALSE, error |-> EnumError(technique, "RedactionTechnique"),
              redactor |-> None]
        ELSE IF sophistication \notin SophisticationLevel
        THEN [ok |-> FALSE, error |-> EnumError(sophistication, "SophisticationLevel"),
              redactor |-> None]
        ELSE [ok |-> TRUE, error |-> NoResult,
              redactor |-> Redactor(RedactorConfig(technique, sophistication, NoDataTypes,
                                                   <<>>, <<>>, "*", 3))]

Threads == 1..NThreads

KwargsChoices ==
    {NoKwargs,
     [technique |-> "mask", sophistication |-> Absent],
     [technique |-> "redact-hard", sophistication |-> Absent],
     [technique |-> Absent, sophistication |-> "ultra"],
     [technique |-> "redact-hard", sophistication |-> "ultra"],
     [technique |-> Absent, sophistication |-> "paranoid"]}

TopDocuments == {"Hello, John!"}
TopData == {{<<"name", "John">>}}
TopReplies == {OkReply("{\"name\": \"***\"}"), ErrorReply}

InitTop ==
    /\ instances = <<>>
    /\ default_redactor = None
    /\ default_made = {}
    /\ pc = [t \in Threads |-> "idle"]
    /\ frame = [t \in Threads |-> NewFrame]
    /\ made = {}
    /\ users = <<>>
    /\ handler = <<>>

\* The method a module-level function calls on the redactor it holds.
MethodOf(op) == IF op = "redact_json" THEN "redact_json" ELSE "redact"

\* Faulty variant: the redactor built from keyword arguments is kept as
\* the module's default.
ObtainRedactor_keeps_as_default(t, f) ==
    /\ pc[t] \in {"idle", "done"}
    /\ Len(instances) < MaxInstances
    /\ LET c == create_redactor(f.kwargs)
       IN  IF f.kwargs # NoKwargs
           THEN IF c.ok
                THEN /\ instances' = Append(instances, c.redactor)
                     /\ default_redactor' = Len(instances) + 1
                     /\ frame' = [frame EXCEPT ![t] = [f EXCEPT !.redactor = Len(instances) + 1]]
                     /\ pc' = [pc EXCEPT ![t] = MethodOf(f.op)]
                ELSE /\ instances' = instances
                     /\ default_redactor' = default_redactor
                     /\ frame' = [frame EXCEPT ![t] = [f EXCEPT !.result = c.error]]
                     /\ pc' = [pc EXCEPT ![t] = "done"]
           ELSE /\ instances' = instances
                /\ default_redactor' = default_redactor
                /\ frame' = [frame EXCEPT ![t] = f]
                /\ pc' = [pc EXCEPT ![t] = "get_default"]
    /\ UNCHANGED <<default_made, made, users, handler>>

\* The first statement of redact and of redact_json: with keyword arguments
\* build a redactor, without ask for the default; f is the caller's frame.
ObtainRedactor(t, f) ==
    /\ pc[t] \in {"idle", "done"}
    /\ Len(instances) < MaxInstances
    /\ LET c == create_redactor(f.kwargs)
       IN  IF f.kwargs # NoKwargs
           THEN IF c.ok
                THEN /\ instances' = Append(instances, c.redactor)
                     /\ frame' = [frame EXCEPT ![t] = [f EXCEPT !.redactor = Len(instances) + 1]]
                     /\ pc' = [pc EXCEPT ![t] = MethodOf(f.op)]
                ELSE /\ instances' = instances
                     /\ frame' = [frame EXCEPT ![t] = [f EXCEPT !.result = c.error]]
                     /\ pc' = [pc EXCEPT ![t] = "done"]
           ELSE /\ instances' = instances
                /\ frame' = [frame EXCEPT ![t] = f]
                /\ pc' = [pc EXCEPT ![t] = "get_default"]
    /\ UNCHANGED <<default_redactor, default_made, made, users, handler>>

\* redact(document, **kwargs) up to the call of redactor.redact(document).
TopRedact(t, document, kwargs) ==
    ObtainRedactor(t, [NewFrame EXCEPT !.op = "redact", !.kwargs = kwargs, !.document = document])

\* redact_json(data, **kwargs) up to the call of redactor.redact_json(data).
TopRedactJson(t, data, kwargs) ==
    ObtainRedactor(t, [NewFrame EXCEPT !.op = "redact_json", !.kwargs = kwargs, !.data = data])

\* A caller calls create_redactor(**kwargs) itself and keeps what it returns.
TopCreateRedactor(t, kwargs) ==
    /\ pc[t] \in {"idle", "done"}
    /\ Len(instances) < MaxInstances
    /\ LET f == [NewFrame EXCEPT !.op = "create_redactor", !.kwargs = kwargs]
           c == create_redactor(kwargs)
       IN  IF c.ok
           THEN /\ instances' = Append(instances, c.redactor)
                /\ frame' = [frame EXCEPT ![t] =
                       [f EXCEPT !.redactor = Len(instances) + 1, !.result = Return("")]]
           ELSE /\ instances' = instances
                /\ frame' = [frame EXCEPT ![t] = [f EXCEPT !.result = c.error]]
    /\ pc' = [pc EXCEPT ![t] = "done"]
    /\ UNCHANGED <<default_redactor, default_made, made, users, handler>>

\* A caller calls get_default_redactor() itself.
TopGetDefault(t) ==
    /\ pc[t] \in {"idle", "done"}
    /\ Len(instances) < MaxInstances
    /\ frame' = [frame EXCEPT ![t] = [NewFrame EXCEPT !.op = "get_default_redactor"]]
    /\ pc' = [pc EXCEPT ![t] = "get_default"]
    /\ UNCHANGED <<instances, default_redactor, default_made, made, users, handler>>

\* get_default_redactor: if default_redactor is None
DefaultCheck(t) ==
    /\ pc[t] = "get_default"
    /\ pc' = [pc EXCEPT ![t] =
           IF default_redactor = None THEN "default_create" ELSE "default_return"]
    /\ UNCHANGED <<instances, default_redactor, default_made, frame, made, users, handler>>

\* get_default_redactor: default_redactor = create_redactor()
DefaultCreate(t) ==
    /\ pc[t] = "default_create"
    /\ instances' = Append(instances, create_redactor(NoKwargs).redactor)
    /\ default_redactor' = Len(instances) + 1
    /\ default_made' = default_made \cup {Len(instances) + 1}
    /\ pc' = [pc EXCEPT ![t] = "default_return"]
    /\ UNCHANGED <<frame, made, users, handler>>

\* get_default_redactor: return default_redactor; a caller of redact or
\* redact_json goes on to the method of the redactor returned.
DefaultReturn(t) ==
    /\ pc[t] = "default_return"
    /\ frame' = [frame EXCEPT ![t].redactor = default_redactor]
    /\ pc' = [pc EXCEPT ![t] =
           IF frame[t].op = "get_default_redactor" THEN "done" ELSE MethodOf(frame[t].op)]
    /\ UNCHANGED <<instances, default_redactor, default_made, made, users, handler>>

NextTop ==
    \/ \E t \in Callers, document \in TopDocuments, kwargs \in KwargsChoices :
          TopRedact(t, document, kwargs)
    \/ \E t \in Callers, data \in TopData, kwargs \in KwargsChoices :
          TopRedactJson(t, data, kwargs)
    \/ \E t \in Callers, kwargs \in KwargsChoices : TopCreateRedactor(t, kwargs)
    \/ \E t \in Callers : TopGetDefault(t)
    \/ \E t \in Callers : DefaultCheck(t)
    \/ \E t \in Callers : DefaultCreate(t)
    \/ \E t \in Callers : DefaultReturn(t)
    \/ \E t \in Callers : Redact(t)
    \/ \E t \in Callers, reply \in TopReplies : MaskRound(t, reply)
    \/ \E t \in Callers, reply \in TopReplies : SubstitutionRound(t, reply)
    \/ \E t \in Callers : RedactJson(t)
    \/ \E t \in Callers : ParseJson(t)

\* SpecTop: NThreads threads call the module-level functions concurrently.
SpecTop == InitTop /\ [][NextTop]_vars

\* SpecFactory: one caller makes module-level calls one after another.
InitFactory ==
    /\ instances = <<>>
    /\ default_redactor = None
    /\ default_made = {}
    /\ pc = [t \in {Owner} |-> "idle"]
    /\ frame = [t \in {Owner} |-> NewFrame]
    /\ made = {}
    /\ users = <<>>
    /\ handler = <<>>

SpecFactory == InitFactory /\ [][NextTop]_vars

InvalidKwargs(kwargs) ==
    \/ kwargs.technique # Absent /\ kwargs.technique \notin RedactionTechnique
    \/ kwargs.sophistication # Absent /\ kwargs.sophistication \notin SophisticationLevel

\* C9: a module-level call whose technique or sophistication string is not
\* a member of its enumeration ends at once by raising a ValueError: the
\* step that begins it ends it, constructs no Redactor, leaves the default
\* instance alone, and the call has sent no request.
C9_UnknownEnumStringFailsFast ==
    /\ [](\A t \in Callers :
            InvalidKwargs(frame[t].kwargs) =>
                /\ pc[t] = "done"
                /\ frame[t].result.kind = "raise"
                /\ frame[t].result.error.type = "ValueError"
                /\ frame[t].result.error.text \in {frame[t].kwargs.technique, frame[t].kwargs.sophistication}
                /\ frame[t].redactor = None
                /\ frame[t].requests = <<>>)
    /\ [][\A t \in Callers :
            (frame'[t] # frame[t] /\ InvalidKwargs(frame'[t].kwargs)) =>
                /\ instances' = instances
                /\ default_redactor' = default_redactor]_vars

C9_Witness ==
    \E t \in Callers :
        /\ frame[t].op = "redact_json"
        /\ frame[t].kwargs = [technique |-> Absent, sophistication |-> "ultra"]
        /\ pc[t] = "done"
        /\ frame[t].result.kind = "raise"
        /\ frame[t].result.error.text = "ultra"
        /\ default_redactor # None
        /\ Len(instances) = 1

\* The calls that go through get_default_redactor.
UsesDefault(f) ==
    \/ f.op = "get_default_redactor"
    \/ f.op \in {"redact", "redact_json"} /\ f.kwargs = NoKwargs

\* C10: at most one default instance is ever created, and every call made
\* without keyword arguments uses it.
C10_DefaultCreatedOnce ==
    /\ Cardinality(default_made) <= 1
    /\ \A t \in Callers :
          (UsesDefault(frame[t]) /\ frame[t].redactor # None) =>
              default_made = {frame[t].redactor}

\* ------------------------------------------------------------------------
\* SpecJson: redact_json, called as a method of a Redactor the owner built
\* and as the module-level function, against an endpoint whose completions
\* are JSON, JSON wrapped in prose, or not JSON at all.
\* ------------------------------------------------------------------------
ValidJson == "{\"name\": \"***\"}"
WrappedJson == "Here is the result: {\"name\": \"***\"} Thanks!"
NoBraces == "I cannot help with that."
ClosedBeforeOpened == "} {"
NeverClosed == "Sure: {\"name\": "
BadInside == "Sure: {\"name\": ***} done"

JsonContents ==
    {ValidJson, WrappedJson, NoBraces, ClosedBeforeOpened, NeverClosed, BadInside}
JsonReplies == {OkReply(c) : c \in JsonContents} \cup {ErrorReply}
JsonKwargs == {NoKwargs, [technique |-> "substitute", sophistication |-> Absent]}

InitJson ==
    /\ \E technique \in RedactionTechnique :
          instances = <<Redactor(RedactorConfig(technique, STANDARD, NoDataTypes, <<>>, <<>>, "*", 3))>>
    /\ default_redactor = None
    /\ default_made = {}
    /\ pc = [t \in {Owner} |-> "idle"]
    /\ frame = [t \in {Owner} |-> NewFrame]
    /\ made = {}
    /\ users = <<>>
    /\ handler = <<>>

\* The owner calls r.redact_json(data).
InvokeJson(t, data) ==
    /\ pc[t] \in {"idle", "done"}
    /\ pc' = [pc EXCEPT ![t] = "redact_json"]
    /\ frame' = [frame EXCEPT ![t] =
           [NewFrame EXCEPT !.op = "Redactor.redact_json", !.redactor = 1, !.data = data]]
    /\ UNCHANGED <<instances, default_redactor, default_made, made, users, handler>>

NextJson ==
    \/ \E t \in Callers, data \in TopData : InvokeJson(t, data)
    \/ \E t \in Callers, document \in TopDocuments : Invoke(t, document)
    \/ \E t \in Callers, data \in TopData, kwargs \in JsonKwargs :
          TopRedactJson(t, data, kwargs)
    \/ \E t \in Callers : DefaultCheck(t)
    \/ \E t \in Callers : DefaultCreate(t)
    \/ \E t \in Callers : DefaultReturn(t)
    \/ \E t \in Callers : RedactJson(t)
    \/ \E t \in Callers : Redact(t)
    \/ \E t \in Callers, reply \in JsonReplies : MaskRound(t, reply)
    \/ \E t \in Callers, reply \in JsonReplies : SubstitutionRound(t, reply)
    \/ \E t \in Callers : ParseJson(t)

SpecJson == InitJson /\ [][NextJson]_vars

\* A redact_json call that has ended after the endpoint answered its last
\* request with a completion: that completion is the text redact returned.
AllJsonOps == {"Redactor.redact_json", "redact_json"}
JsonCallEnded(t) ==
    /\ pc[t] = "done"
    /\ frame[t].op \in AllJsonOps
    /\ frame[t].redactor # None
    /\ Len(frame[t].replies) > 0
    /\ frame[t].replies[Len(frame[t].replies)].status = 200
    /\ frame[t].replies[Len(frame[t].replies)].has_content
FinalOutput(t) == frame[t].replies[Len(frame[t].replies)].content

\* The substring of text from its first "{" to its last "}", or "" when
\* there is no such substring.
Opens(text) == {i \in 1..Len(text) : SubSeq(text, i, i) = "{"}
Closes(text) == {i \in 1..Len(text) : SubSeq(text, i, i) = "}"}
FirstOpen(text) == CHOOSE i \in Opens(text) : \A j \in Opens(text) : i <= j
LastClose(text) == CHOOSE i \in Closes(text) : \A j \in Closes(text) : j <= i
HasBracketed(text) ==
    Opens(text) # {} /\ Closes(text) # {} /\ FirstOpen(text) < LastClose(text)
Bracketed(text) ==
    IF HasBracketed(text) THEN SubSeq(text, FirstOpen(text), LastClose(text)) ELSE ""

\* C11: when the text redact returned is not JSON but the substring from
\* its first "{" to its last "}" is, redact_json returns the parse of that
\* substring.
C11_WrappedJsonRecovered ==
    \A t \in Callers :
        (/\ JsonCallEnded(t)
         /\ ~IsJson(FinalOutput(t))
         /\ HasBracketed(FinalOutput(t))
         /\ IsJson(Bracketed(FinalOutput(t)))) =>
            /\ frame[t].result.kind = "return"
            /\ frame[t].result.parsed = json_loads(Bracketed(FinalOutput(t)))

C11_Witness ==
    \E t \in Callers :
        /\ JsonCallEnded(t)
        /\ FinalOutput(t) = WrappedJson
        /\ ConfigOf(t).technique = BOTH
        /\ frame[t].result.kind = "return"
        /\ frame[t].result.parsed = {<<"name", "***">>}

\* C12: when the text redact returned is not JSON and the substring from
\* its first "{" to its last "}" is missing or is not JSON either,
\* redact_json raises (ValueError, or its subclass JSONDecodeError from the
\* second parse) and returns nothing.
C12_UnparseableRaises ==
    \A t \in Callers :
        (/\ JsonCallEnded(t)
         /\ ~IsJson(FinalOutput(t))
         /\ ~(HasBracketed(FinalOutput(t)) /\ IsJson(Bracketed(FinalOutput(t))))) =>
            /\ frame[t].result.kind = "raise"
            /\ frame[t].result.parsed = {}
            /\ frame[t].result.value = ""
            /\ frame[t].result.error.type =
                  IF HasBracketed(FinalOutput(t)) THEN "JSONDecodeError" ELSE "ValueError"

C12_Witness ==
    \E t \in Callers :
        /\ JsonCallEnded(t)
        /\ FinalOutput(t) = NeverClosed
        /\ frame[t].op = "redact_json"
        /\ frame[t].result.kind = "raise"
        /\ frame[t].result.error.type = "ValueError"

\* C13: when the text redact returned is JSON, redact_json returns what
\* the whole text parses to, called as a method or as the module-level
\* function.
C13_ValidJsonParsedDirectly ==
    \A t \in Callers :
        (JsonCallEnded(t) /\ IsJson(FinalOutput(t))) =>
            frame[t].result = ReturnDict(json_loads(FinalOutput(t)))

C13_Witness ==
    \E t \in Callers :
        /\ JsonCallEnded(t)
        /\ frame[t].op = "redact_json"
        /\ frame[t].kwargs.technique = "substitute"
        /\ FinalOutput(t) = ValidJson
        /\ frame[t].result = ReturnDict({<<"name", "***">>})

\* ------------------------------------------------------------------------
\* What a prompt carries verbatim.
\* ------------------------------------------------------------------------
Contains(text, part) ==
    \E i \in 1..(Len(text) - Len(part) + 1) : SubSeq(text, i, i + Len(part) - 1) = part

\* The prompt shows the name in its individuals block.
ShowsIndividual(prompt, name) ==
    prompt.individuals.emitted /\ Contains(prompt.individuals.names, name)

\* The prompt shows the pattern in its custom-pattern block.
ShowsPattern(prompt, pattern) ==
    /\ prompt.patterns.emitted
    /\ \E i \in DOMAIN prompt.patterns.patterns : Contains(prompt.patterns.patterns[i], pattern)

\* C14: for technique BOTH, every request sent, mask round or substitution
\* round, carries each name of target_individuals verbatim in its prompt;
\* with an empty list no request carries an individuals block.
C14_BothPromptsNameIndividuals ==
    \A t \in Callers :
        (frame[t].redactor # None /\ TechniqueOf(t) = BOTH) =>
            \A i \in DOMAIN frame[t].requests :
                LET prompt == frame[t].requests[i].prompt
                    names == ConfigOf(t).target_individuals
                IN  IF names = <<>>
                    THEN ~prompt.individuals.emitted /\ prompt.individuals.names = ""
                    ELSE \A n \in DOMAIN names : ShowsIndividual(prompt, names[n])

C14_Witness ==
    \E t \in Callers :
        /\ Returned(t)
        /\ TechniqueOf(t) = BOTH
        /\ ConfigOf(t).target_individuals = <<"Mickey Mouse", "Donald Duck">>
        /\ Len(frame[t].requests) = 2
        /\ IsMaskRequest(frame[t].requests[1])
        /\ IsSubstitutionRequest(frame[t].requests[2])
        /\ frame[t].requests[1].prompt.individuals.names = "\"Mickey Mouse\", \"Donald Duck\""
        /\ ShowsIndividual(frame[t].requests[2].prompt, "Donald Duck")

\* C15: for every technique, a redact call that has returned under a
\* configuration with custom patterns has sent a prompt that carries each
\* pattern verbatim.
C15_PatternsReachTheModel ==
    \A t \in Callers :
        Returned(t) =>
            \A p \in DOMAIN ConfigOf(t).custom_patterns :
                \E i \in DOMAIN frame[t].requests :
                    ShowsPattern(frame[t].requests[i].prompt, ConfigOf(t).custom_patterns[p])

\* ------------------------------------------------------------------------
\* Claims about the configuration objects of SpecConfig.
\* ------------------------------------------------------------------------
MadeForLevel(level) == {m \in made : m.op = "for_level" /\ m.level = level}
MadeConfigs == {m \in made : m.op = "RedactorConfig"}

\* C16: a RedactorConfig, once constructed, has a data_types: the one
\* for_level gives for its sophistication when none was passed, and the
\* one passed, unchanged, otherwise.
C16_DataTypesNeverUnset ==
    \A m \in MadeConfigs :
        /\ m.data_types # NoDataTypes
        /\ m.data_types \subseteq Categories
        /\ m.given = NoDataTypes =>
              \A d \in MadeForLevel(m.level) : m.data_types = d.data_types
        /\ m.given # NoDataTypes => m.data_types = m.given

C16_Witness ==
    \E m \in MadeConfigs, d \in MadeForLevel(PARANOID) :
        /\ m.level = PARANOID
        /\ m.given = NoDataTypes
        /\ m.data_types = d.data_types
        /\ "travel_history" \in m.data_types

\* C18 as claimed: MINIMAL enables STANDARD's twelve categories less
\* exactly five, and no extended category.
C18_MinimalDropsFive ==
    \A a \in MadeForLevel(MINIMAL), b \in MadeForLevel(STANDARD) :
        /\ a.data_types \subseteq b.data_types
        /\ Cardinality(b.data_types) = 12
        /\ Cardinality(b.data_types \ a.data_types) = 5
        /\ a.data_types \cap Extended = {}

\* C18, amended: MINIMAL enables STANDARD's twelve categories less exactly
\* seven (physical_addresses, dates_of_birth, financial_accounts,
\* medical_info, biometric_data, ip_addresses, usernames), which leaves
\* five, and no extended category.
C18_MinimalDropsSeven ==
    \A a \in MadeForLevel(MINIMAL), b \in MadeForLevel(STANDARD) :
        /\ a.data_types \subseteq b.data_types
        /\ Cardinality(b.data_types) = 12
        /\ b.data_types \ a.data_types =
              {"physical_addresses", "dates_of_birth", "financial_accounts",
               "medical_info", "biometric_data", "ip_addresses", "usernames"}
        /\ Cardinality(a.data_types) = 5
        /\ a.data_types \cap Extended = {}

C18_Witness ==
    \E a \in MadeForLevel(MINIMAL), b \in MadeForLevel(STANDARD) :
        /\ a.data_types = {"names", "ssn", "phone_numbers", "email_addresses", "passwords"}
        /\ Cardinality(b.data_types \ a.data_types) = 7

\* C19: for_level gives a result at each of the four levels; STANDARD
\* enables the twelve default categories and no extended one,
\* COMPREHENSIVE those twelve and nicknames, locations, employers,
\* relationships, PARANOID all twenty.
C19_ForLevelResults ==
    /\ \A m \in made : m.op = "for_level" => m.data_types \subseteq Categories
    /\ \A m \in MadeForLevel(STANDARD) :
          /\ Cardinality(m.data_types) = 12
          /\ m.data_types = Categories \ Extended
    /\ \A m \in MadeForLevel(COMPREHENSIVE) :
          /\ Cardinality(m.data_types) = 16
          /\ m.data_types =
                (Categories \ Extended)
                    \cup {"nicknames", "locations", "employers", "relationships"}
    /\ \A m \in MadeForLevel(PARANOID) :
          /\ Cardinality(m.data_types) = 20
          /\ m.data_types = Categories

C19_Witness ==
    \E a \in MadeForLevel(COMPREHENSIVE), b \in MadeForLevel(STANDARD) :
        /\ a.data_types \ b.data_types =
              {"nicknames", "locations", "employers", "relationships"}
        /\ Cardinality(Extended \ a.data_types) = 4

\* ------------------------------------------------------------------------
\* The order and the emptiness of the category list of a prompt.
\* ------------------------------------------------------------------------
CanonicalOrder ==
    <<"names", "ssn", "phone_numbers", "email_addresses", "physical_addresses",
      "dates_of_birth", "financial_accounts", "medical_info", "biometric_data",
      "ip_addresses", "usernames", "passwords", "nicknames", "locations",
      "employers", "relationships", "educational_history",
      "physical_descriptions", "vehicle_info", "travel_history">>

RestrictedMaskListOrder ==
    <<"ssn", "passwords", "financial_accounts", "medical_info", "biometric_data">>

SubstitutionListOrder ==
    <<"names", "nicknames", "phone_numbers", "email_addresses",
      "physical_addresses", "dates_of_birth", "ip_addresses", "usernames",
      "locations", "employers", "relationships", "educational_history",
      "physical_descriptions", "vehicle_info", "travel_history">>

\* The category each category line stands for.
CategoryLines ==
    Range(AllLine) \cup Range(PartialMaskLine) \cup Range(SubstitutionLine)
CategoryOf == [line \in CategoryLines |-> CHOOSE c \in Categories : c \in Named(<<line>>)]
IsCategoryLine(line) == line \in CategoryLines

\* The place of each category of `order` in it.
PosIn(order) ==
    [c \in Range(order) |-> CHOOSE i \in DOMAIN order : order[i] = c]
CanonicalPos == PosIn(CanonicalOrder)
RestrictedMaskListPos == PosIn(RestrictedMaskListOrder)
SubstitutionListPos == PosIn(SubstitutionListOrder)

\* Any two category lines of `lines` stand as their categories stand in the
\* order whose places `pos` gives.
InOrder(lines, pos) ==
    \A i, j \in DOMAIN lines :
        (i < j /\ IsCategoryLine(lines[i]) /\ IsCategoryLine(lines[j])) =>
            /\ CategoryOf[lines[i]] \in DOMAIN pos
            /\ CategoryOf[lines[j]] \in DOMAIN pos
            /\ pos[CategoryOf[lines[i]]] < pos[CategoryOf[lines[j]]]

\* The three kinds of prompt, told apart by what the request itself says.
IsRestrictedMaskRequest(r) ==
    IsMaskRequest(r) /\ r.system.phase = "first phase (masking critical data)"
IsFullMaskRequest(r) == IsMaskRequest(r) /\ r.system.phase = "complete masking"

ListOrderOf(r) ==
    IF IsSubstitutionRequest(r)
    THEN SubstitutionListOrder
    ELSE IF IsRestrictedMaskRequest(r) THEN RestrictedMaskListOrder ELSE CanonicalOrder

ListPosOf(r) ==
    IF IsSubstitutionRequest(r)
    THEN SubstitutionListPos
    ELSE IF IsRestrictedMaskRequest(r) THEN RestrictedMaskListPos ELSE CanonicalPos

FallbackOf(r) ==
    IF IsSubstitutionRequest(r)
    THEN "- General PII as appropriate"
    ELSE IF IsRestrictedMaskRequest(r)
         THEN "- No specific types for masking"
         ELSE "- Standard PII"

\* C17 as claimed: in every prompt the category lines stand in the one
\* canonical order names, ssn, phone, ..., vehicle, travel.
C17_CanonicalOrderEverywhere ==
    \A t \in Callers :
        \A i \in DOMAIN frame[t].requests :
            InOrder(frame[t].requests[i].prompt.data_types, CanonicalPos)

\* C17, amended: in every prompt the category lines stand in a fixed order
\* that depends only on the kind of prompt: the canonical order in the full
\* mask prompt; ssn, passwords, financial, medical, biometric in the
\* restricted mask prompt; names, nicknames, phone, email, address, dob, ip,
\* usernames, locations, employers, relationships, education,
\* physical-description, vehicle, travel in the substitution prompt.
C17_FixedOrderPerPromptKind ==
    \A t \in Callers :
        \A i \in DOMAIN frame[t].requests :
            LET r == frame[t].requests[i]
            IN  /\ IsSubstitutionRequest(r) \/ IsRestrictedMaskRequest(r) \/ IsFullMaskRequest(r)
                /\ InOrder(r.prompt.data_types, ListPosOf(r))

C17_Witness ==
    \E t \in Callers :
        /\ Returned(t)
        /\ TechniqueOf(t) = BOTH
        /\ ConfigOf(t).data_types = Categories
        /\ SubSeq(frame[t].requests[1].prompt.data_types, 1, 3) =
              <<"- Social Security Numbers (SSN)",
                "- Passwords and security credentials",
                "- Bank account numbers, credit card numbers">>
        /\ SubSeq(frame[t].requests[2].prompt.data_types, 1, 3) =
              <<"- Personal names (first, last, full names)",
                "- Nicknames and aliases",
                "- Phone numbers (replace with different realistic numbers)">>

\* C20: the category list of a prompt is never empty: when none of the
\* categories its kind of prompt can list is enabled, the list is the one
\* fallback line of that kind, and otherwise it holds category lines only.
C20_NeverEmptyCategoryList ==
    \A t \in Callers :
        \A i \in DOMAIN frame[t].requests :
            LET r == frame[t].requests[i]
                lines == r.prompt.data_types
                listed == ConfigOf(t).data_types \cap Range(ListOrderOf(r))
            IN  /\ lines # <<>>
                /\ listed = {} => lines = <<FallbackOf(r)>>
                /\ listed # {} =>
                      /\ Len(lines) = Cardinality(listed)
                      /\ \A n \in DOMAIN lines : IsCategoryLine(lines[n])

C20_Witness ==
    \E t \in Callers :
        /\ Returned(t)
        /\ TechniqueOf(t) = BOTH
        /\ ConfigOf(t).data_types = {"names"}
        /\ frame[t].requests[1].prompt.data_types = <<"- No specific types for masking">>
        /\ frame[t].requests[2].prompt.data_types = <<"- Personal names (first, last, full names)">>

\* C21: for technique BOTH, the marker that the substitution request, in
\* its prompt and in its system message, says to leave as it is equals the
\* mask the mask request of the same call said to write, which is mask_char
\* repeated mask_length times.
C21_SubstitutionSkipsTheMaskWritten ==
    \A t \in Callers :
        (frame[t].redactor # None /\ TechniqueOf(t) = BOTH /\ Len(frame[t].requests) = 2) =>
            LET written == frame[t].requests[1].prompt.mask
                second == frame[t].requests[2]
            IN  /\ written = Repeat(ConfigOf(t).mask_char, ConfigOf(t).mask_length)
                /\ second.prompt.already_masked = written
                /\ second.system.already_masked = written

\* ------------------------------------------------------------------------
\* The host (handlers.py, api_server.py).  A handler is one request being
\* served; `users` is the users/ prefix of the storage bucket.
\* ------------------------------------------------------------------------
NoUser == [exists |-> FALSE, password_hash |-> ""]
UserRecord(password_hash) == [exists |-> TRUE, password_hash |-> password_hash]

NewHandler ==
    [op |-> "", pc |-> "idle", email |-> "", password |-> "", existed |-> FALSE,
     existing_user |-> NoUser, wrote |-> FALSE,
     token |-> Absent, description |-> "", called |-> <<>>,
     collected |-> {}, api_key |-> "", reply |-> ErrorReply,
     status |-> 0, data |-> {}, error |-> ""]

Handlers == DOMAIN handler

\* config.OPENROUTER_API_KEY: unset, or set.
ApiKeys == {"", "sk-or-v1-key"}

\* str(e) of the exception a call ended with.
StrOfError(error) ==
    IF error.status # 0
    THEN "OpenRouter API error: " \o ToString(error.status) \o " - " \o error.text
    ELSE error.text

\* call_openrouter: the key check, the post, the status check, the content.
call_openrouter(api_key, reply) ==
    IF api_key = ""
    THEN Raise("ValueError", 0, "OPENROUTER_API_KEY not configured")
    ELSE IF reply.status # 200
         THEN Raise("Exception", reply.status, reply.text)
         ELSE IF reply.has_content
              THEN Return(reply.content)
              ELSE Raise("KeyError", 0, "'choices'")

\* The inner try of redact_data: json.loads, or the extraction, or the
\* JSONDecodeError raised again.
parse_redacted_str(redacted_str) ==
    IF IsJson(redacted_str)
    THEN ReturnDict(json_loads(redacted_str))
    ELSE LET start == find(redacted_str, "{")
             end == rfind(redacted_str, "}") + 1
         IN  IF start # -1 /\ end > start
             THEN IF IsJson(Slice(redacted_str, start, end))
                  THEN ReturnDict(json_loads(Slice(redacted_str, start, end)))
                  ELSE Raise("JSONDecodeError", 0, "Expecting value")
             ELSE Raise("JSONDecodeError", 0, "Expecting value")

\* The dict the except clause of redact_data returns.
RedactionFailed(note) ==
    {<<"error", "Redaction failed">>,
     <<"original_data", "[WITHHELD FOR PRIVACY]">>,
     <<"note", note>>}

\* Faulty variant: when the call or the parse fails, the data comes back
\* as it went in.
redact_data_falls_back_to_input(data, api_key, reply) ==
    LET called == call_openrouter(api_key, reply)
        outcome == IF called.kind = "raise" THEN called ELSE parse_redacted_str(called.value)
    IN  IF outcome.kind = "raise" THEN ReturnDict(data) ELSE outcome

\* redact_data(data) with the key configured as api_key and the endpoint
\* answering reply.
redact_data(data, api_key, reply) ==
    LET called == call_openrouter(api_key, reply)
        outcome == IF called.kind = "raise" THEN called ELSE parse_redacted_str(called.value)
    IN  IF outcome.kind = "raise"
        THEN ReturnDict(RedactionFailed(StrOfError(outcome.error)))
        ELSE outcome

\* ------------------------------------------------------------------------
\* POST /get_data behind token_required.
\* ------------------------------------------------------------------------
\* The Authorization header: not sent, empty, or a token with or without
\* the "Bearer " prefix.
Tokens ==
    {Absent, "", "good.jwt", "Bearer good.jwt", "Bearer expired.jwt",
     "Bearer forged.jwt", "Bearer "}

\* token[7:] when token.startswith('Bearer ')
strip_bearer(token) ==
    IF Len(token) >= 7 /\ SubSeq(token, 1, 7) = "Bearer "
    THEN SubSeq(token, 8, Len(token))
    ELSE token

\* jwt.decode(token, SECRET_KEY, algorithms=['HS256'])
jwt_decode(token) ==
    IF token = "good.jwt"
    THEN "ok"
    ELSE IF token = "expired.jwt" THEN "ExpiredSignatureError" ELSE "InvalidTokenError"

\* Faulty variant: a token that fails to decode is let through.
token_required_lenient(token) ==
    IF token = Absent \/ token = ""
    THEN [status |-> 401, error |-> "Token is missing"]
    ELSE [status |-> 0, error |-> ""]

\* token_required: the response that ends the request, or status 0 when
\* the handler body is to run.
token_required(token) ==
    IF token = Absent \/ token = ""
    THEN [status |-> 401, error |-> "Token is missing"]
    ELSE LET decoded == jwt_decode(strip_bearer(token))
         IN  IF decoded = "ExpiredSignatureError"
             THEN [status |-> 401, error |-> "Token has expired"]
             ELSE IF decoded = "InvalidTokenError"
                  THEN [status |-> 401, error |-> "Invalid token"]
                  ELSE [status |-> 0, error |-> ""]

Descriptions == {"", "census data for Colorado", "labor statistics"}
HostData == {{<<"name", "John">>}, {<<"name", "Mickey">>}}
EchoOfJohn == "{\n  \"name\": \"John\"\n}"
HostReplies ==
    {OkReply(c) : c \in JsonContents \cup {EchoOfJohn}} \cup {ErrorReply, MalformedReply}

\* A request POST /get_data arrives: token_required, then the description
\* check of get_data.
GetData(h, token, description) ==
    /\ handler[h].pc \in {"idle", "done"}
    /\ LET gate == token_required(token)
           req == [NewHandler EXCEPT !.op = "get_data", !.token = token,
                                     !.description = description]
       IN  handler' = [handler EXCEPT ![h] =
               IF gate.status # 0
               THEN [req EXCEPT !.pc = "done", !.status = gate.status, !.error = gate.error]
               ELSE IF description = ""
                    THEN [req EXCEPT !.pc = "done", !.status = 400,
                                     !.error = "Description required"]
                    ELSE [req EXCEPT !.pc = "collect_data"]]
    /\ UNCHANGED <<instances, default_redactor, default_made, pc, frame, made, users>>

\* collected_data = collect_data(description): data from storage or the
\* sample data.
CollectData(h, data) ==
    /\ handler[h].pc = "collect_data"
    /\ handler' = [handler EXCEPT ![h].pc = "redact_data",
                                  ![h].called = Append(@, "collect_data"),
                                  ![h].collected = data]
    /\ UNCHANGED <<instances, default_redactor, default_made, pc, frame, made, users>>

\* collect_data raises (get_s3_client is called outside its try): the
\* except clause of get_data answers 500.
CollectDataRaises(h) ==
    /\ handler[h].pc = "collect_data"
    /\ handler' = [handler EXCEPT ![h].pc = "done",
                                  ![h].called = Append(@, "collect_data"),
                                  ![h].status = 500,
                                  ![h].error = "Failed to process data request"]
    /\ UNCHANGED <<instances, default_redactor, default_made, pc, frame, made, users>>

\* redacted_data = redact_data(collected_data), and the 200 response.
RedactData(h, api_key, reply) ==
    /\ handler[h].pc = "redact_data"
    /\ LET result == redact_data(handler[h].collected, api_key, reply)
       IN  handler' = [handler EXCEPT
               ![h].called = Append(@, "redact_data"),
               ![h].api_key = api_key,
               ![h].reply = reply,
               ![h].pc = "done",
               ![h].status = IF result.kind = "raise" THEN 500 ELSE 200,
               ![h].error = IF result.kind = "raise" THEN "Failed to process data request" ELSE "",
               ![h].data = result.parsed]
    /\ UNCHANGED <<instances, default_redactor, default_made, pc, frame, made, users>>

InitGetData ==
    /\ instances = <<>>
    /\ default_redactor = None
    /\ default_made = {}
    /\ pc = <<>>
    /\ frame = <<>>
    /\ made = {}
    /\ users = <<>>
    /\ handler = [h \in {"request"} |-> NewHandler]

NextGetData ==
    \/ \E h \in Handlers, token \in Tokens, description \in Descriptions :
          GetData(h, token, description)
    \/ \E h \in Handlers, data \in HostData : CollectData(h, data)
    \/ \E h \in Handlers : CollectDataRaises(h)
    \/ \E h \in Handlers, api_key \in ApiKeys, reply \in HostReplies :
          RedactData(h, api_key, reply)

SpecGetData == InitGetData /\ [][NextGetData]_vars

\* A get_data request whose redact_data call has returned.
RedactDataReturned(h) ==
    /\ handler[h].op = "get_data"
    /\ handler[h].pc = "done"
    /\ handler[h].called = <<"collect_data", "redact_data">>

\* The three failures of a redact_data call: no API key, a response other
\* than a 200 with a completion, a completion that is not JSON and has no
\* JSON between its first "{" and its last "}".
RedactDataFailed(h) ==
    \/ handler[h].api_key = ""
    \/ handler[h].reply.status # 200
    \/ ~handler[h].reply.has_content
    \/ /\ ~IsJson(handler[h].reply.content)
       /\ ~(HasBracketed(handler[h].reply.content)
              /\ IsJson(Bracketed(handler[h].reply.content)))

Keys(dict) == {item[1] : item \in dict}

\* C22: redact_data never raises and never hands its input back in place
\* of a result: when it fails it returns the dict with keys error,
\* original_data, note whose original_data is "[WITHHELD FOR PRIVACY]";
\* when it succeeds it returns what the completion parses to, whole or
\* between its outermost braces.
C22_RedactDataWithholdsOnFailure ==
    \A h \in Handlers :
        RedactDataReturned(h) =>
            /\ handler[h].status = 200
            /\ handler[h].error = ""
            /\ RedactDataFailed(h) =>
                  /\ Keys(handler[h].data) = {"error", "original_data", "note"}
                  /\ <<"error", "Redaction failed">> \in handler[h].data
                  /\ <<"original_data", "[WITHHELD FOR PRIVACY]">> \in handler[h].data
                  /\ handler[h].data # handler[h].collected
            /\ ~RedactDataFailed(h) =>
                  handler[h].data =
                      IF IsJson(handler[h].reply.content)
                      THEN json_loads(handler[h].reply.content)
                      ELSE json_loads(Bracketed(handler[h].reply.content))

C22_Witness ==
    \E h \in Handlers :
        /\ RedactDataReturned(h)
        /\ handler[h].api_key # ""
        /\ handler[h].reply = OkReply(BadInside)
        /\ handler[h].collected = {<<"name", "Mickey">>}
        /\ <<"original_data", "[WITHHELD FOR PRIVACY]">> \in handler[h].data
        /\ <<"note", "Expecting value">> \in handler[h].data

\* C23: a get_data request whose Authorization header is missing or does
\* not decode is answered 401 with neither collect_data nor redact_data
\* called; a request is past the gate only with a token that decodes.
GoodTokens == {"good.jwt", "Bearer good.jwt"}

C23_NoTokenNoData ==
    \A h \in Handlers :
        handler[h].op = "get_data" =>
            /\ handler[h].token \notin GoodTokens =>
                  /\ handler[h].pc = "done"
                  /\ handler[h].status = 401
                  /\ handler[h].called = <<>>
                  /\ handler[h].collected = {}
                  /\ handler[h].data = {}
            /\ (handler[h].called # <<>> \/ handler[h].pc # "done" \/ handler[h].status # 401) =>
                  handler[h].token \in GoodTokens

C23_Witness ==
    \E h \in Handlers :
        /\ handler[h].op = "get_data"
        /\ handler[h].token = "Bearer expired.jwt"
        /\ handler[h].description # ""
        /\ handler[h].pc = "done"
        /\ handler[h].status = 401
        /\ handler[h].error = "Token has expired"
        /\ handler[h].called = <<>>

\* ------------------------------------------------------------------------
\* POST /signup, served by concurrent request threads over one bucket.
\* ------------------------------------------------------------------------
Emails == {"", "alice@example.gov", "bob@example.gov"}
Passwords == {"", "Password123!", "AnotherPassword123!"}
StorageOutcomes == {"ok", "error"}

\* get_user: the stored record; None when there is no such key, and None
\* too when the read raises anything else.
get_user(stored, read) == IF read = "ok" THEN stored ELSE NoUser

\* bcrypt.hashpw(password, bcrypt.gensalt()); the salt is the request's own.
hashpw(password, salt) == "bcrypt$" \o ToString(salt) \o "$" \o password

InitSignup ==
    /\ instances = <<>>
    /\ default_redactor = None
    /\ default_made = {}
    /\ pc = <<>>
    /\ frame = <<>>
    /\ made = {}
    /\ users = [email \in Emails \ {""} |-> NoUser]
    /\ handler = [h \in Threads |-> NewHandler]

\* A request POST /signup arrives: the 400 check.  `existed` notes
\* whether the record was in storage at that moment.
Signup(h, email, password) ==
    /\ handler[h].pc \in {"idle", "done"}
    /\ LET req == [NewHandler EXCEPT !.op = "signup", !.email = email, !.password = password,
                                     !.existed = (email # "" /\ users[email].exists)]
       IN  handler' = [handler EXCEPT ![h] =
               IF email = "" \/ password = ""
               THEN [req EXCEPT !.pc = "done", !.status = 400,
                                !.error = "Email and password required"]
               ELSE [req EXCEPT !.pc = "get_user"]]
    /\ UNCHANGED <<instances, default_redactor, default_made, pc, frame, made, users>>

\* existing_user = get_user(email); if existing_user: 409
SignupGetUser(h, read) ==
    /\ handler[h].pc = "get_user"
    /\ LET existing_user == get_user(users[handler[h].email], read)
       IN  handler' = [handler EXCEPT ![h] =
               IF existing_user.exists
               THEN [@ EXCEPT !.existing_user = existing_user, !.pc = "done",
                              !.status = 409, !.error = "Email already exists"]
               ELSE [@ EXCEPT !.existing_user = existing_user, !.pc = "save_user"]]
    /\ UNCHANGED <<instances, default_redactor, default_made, pc, frame, made, users>>

\* password_hash = bcrypt.hashpw(...); save_user(email, password_hash):
\* put_object stores the record, or fails and the answer is 500.
SignupSaveUser(h, write) ==
    /\ handler[h].pc = "save_user"
    /\ IF write = "ok"
       THEN /\ users' = [users EXCEPT ![handler[h].email] =
                             UserRecord(hashpw(handler[h].password, h))]
            /\ handler' = [handler EXCEPT ![h].pc = "done", ![h].status = 201,
                                          ![h].wrote = TRUE]
       ELSE /\ users' = users
            /\ handler' = [handler EXCEPT ![h].pc = "done", ![h].status = 500,
                                          ![h].error = "Failed to create user"]
    /\ UNCHANGED <<instances, default_redactor, default_made, pc, frame, made>>

NextSignup ==
    \/ \E h \in Handlers, email \in Emails, password \in Passwords :
          Signup(h, email, password)
    \/ \E h \in Handlers, read \in StorageOutcomes : SignupGetUser(h, read)
    \/ \E h \in Handlers, write \in StorageOutcomes : SignupSaveUser(h, write)

SpecSignup == InitSignup /\ [][NextSignup]_vars

SignupsFor(email) == {h \in Handlers : handler[h].op = "signup" /\ handler[h].email = email}

\* C24: of the signup requests for one email, however they interleave, at
\* most one is answered 201 and at most one has written the user record.
C24_OneSignupPerEmail ==
    \A email \in Emails :
        /\ Cardinality({h \in SignupsFor(email) : handler[h].status = 201}) <= 1
        /\ Cardinality({h \in SignupsFor(email) : handler[h].wrote}) <= 1

\* C25: a signup request for an email whose record was in storage when the
\* request arrived does not write the record.
C25_ExistingRecordNotOverwritten ==
    \A h \in Handlers :
        (handler[h].op = "signup" /\ handler[h].existed) =>
            /\ ~handler[h].wrote
            /\ handler[h].status # 201

WithKwargs(f) == f.op \in {"redact", "redact_json"} /\ f.kwargs # NoKwargs

\* C27: a step that begins a module-level redact or redact_json call with
\* keyword arguments leaves default_redactor and every existing Redactor
\* as they are, and the Redactor the call then uses is a new one, never the
\* default; every call without keyword arguments runs on the default
\* instance, whose configuration is technique BOTH and sophistication
\* STANDARD.
C27_KwargsLeaveDefaultAlone ==
    /\ [](\A t \in Callers :
            /\ (WithKwargs(frame[t]) /\ frame[t].redactor # None) =>
                  /\ frame[t].redactor # default_redactor
                  /\ frame[t].redactor \notin default_made
            /\ (UsesDefault(frame[t]) /\ frame[t].redactor # None) =>
                  /\ frame[t].redactor = default_redactor
                  /\ ConfigOf(t).technique = BOTH
                  /\ ConfigOf(t).sophistication = STANDARD
                  /\ ConfigOf(t).data_types = DataTypeConfig)
    /\ [][\A t \in Callers :
            (WithKwargs(frame'[t]) /\ frame'[t] # frame[t]) =>
                /\ default_redactor' = default_redactor
                /\ default_made' = default_made
                /\ \A i \in DOMAIN instances : instances'[i] = instances[i]
                /\ (pc[t] \in {"idle", "done"} /\ frame'[t].redactor # None) =>
                      /\ frame'[t].redactor \notin DOMAIN instances
                      /\ frame'[t].redactor \in DOMAIN instances']_vars

C27_Witness ==
    \E t \in Callers :
        /\ frame[t].op = "redact"
        /\ frame[t].kwargs = NoKwargs
        /\ pc[t] = "done"
        /\ frame[t].result.kind = "return"
        /\ default_redactor = 2
        /\ frame[t].redactor = 2
        /\ instances[1].config.technique = MASK
        /\ instances[2].config.technique = BOTH

====
